---- MODULE Spec2Model ----
(***************************************************************************)
(* AeroChat Conversation Logger.                                           *)
(*                                                                         *)
(*   fire_log (Python dispatcher)  ->  POST /api/log-event (Vercel)        *)
(*                                 ->  conversation_events (Postgres)      *)
(*                                                                         *)
(* The ingestion handler is src/api/log-event.ts, the table is the SQL of  *)
(* src/unnamed/part_001, the dispatcher is the reference implementation in *)
(* section 5.1 of src/unnamed/part_000.                                    *)
(*                                                                         *)
(* Environment assumptions: the store is reachable from the handler (an    *)
(* insert fails only for a reason the table definition gives), identifiers *)
(* are JSON strings, and the handler's clock never runs backwards.         *)
(***************************************************************************)
EXTENDS Integers, Sequences, FiniteSets, TLC

VARIABLES
    LOGGER_API_KEY,        \* the endpoint's process.env.LOGGER_API_KEY
    conversation_events,   \* the table: the sequence of committed rows
    reqs,                  \* every request that reached the endpoint, in order of arrival
    now,                   \* the endpoint's clock
    pyenv,                 \* the dispatcher's LOGGER_ENDPOINT and LOGGER_API_KEY
    pipeline,              \* whether the calling pipeline runs inside an event loop
    calls                  \* every fire_log call of the pipeline, in order

vars == <<LOGGER_API_KEY, conversation_events, reqs, now, pyenv, pipeline, calls>>

-----------------------------------------------------------------------------
(* Bounds *)

MaxReq == 2        \* requests that reach the endpoint
MaxClock == 1      \* clock readings 0..MaxClock
MaxCalls == 2      \* fire_log calls
SendCap == 2       \* send attempts one call may make before the model stops counting
MaxSteps == 2      \* entries of a model_calls array
MaxMs == 1         \* readings 0..MaxMs of response_time_ms

-----------------------------------------------------------------------------
(* JavaScript / JSON values.  Every value is a record of the same shape so *)
(* that any two of them can be compared.                                   *)

Undefined == [k |-> "undefined", s |-> "", n |-> 0, a |-> <<>>]
Null      == [k |-> "null",      s |-> "", n |-> 0, a |-> <<>>]
Str(x)    == [k |-> "string",    s |-> x,  n |-> 0, a |-> <<>>]
Num(x)    == [k |-> "number",    s |-> "", n |-> x, a |-> <<>>]
Arr(x)    == [k |-> "array",     s |-> "", n |-> 0, a |-> x]
Obj(x)    == [k |-> "object",    s |-> x,  n |-> 0, a |-> <<>>]

\* ToBoolean: undefined, null, "" and 0 are falsy; arrays and objects are truthy.
Truthy(v) ==
    CASE v.k = "undefined" -> FALSE
      [] v.k = "null"      -> FALSE
      [] v.k = "string"    -> v.s /= ""
      [] v.k = "number"    -> v.n /= 0
      [] OTHER             -> TRUE

\* a || b
OrElse(a, b) == IF Truthy(a) THEN a ELSE b

\* `${v}` of a string or of undefined
Template(v) == IF v.k = "undefined" THEN "undefined" ELSE v.s

\* new Date().toISOString() at clock reading t
ToISOString(t) == "T" \o ToString(t)

-----------------------------------------------------------------------------
(* The table conversation_events *)

RequiredFields == <<"event_id", "conversation_id", "merchant_id">>

OptionalFields ==
    {"direction", "source", "message", "timestamp", "intention", "tagging",
     "language", "contextual_summary", "working_context", "memory_basket",
     "retrieved_docs", "filter_response", "model_calls", "response_time_ms",
     "eval", "metadata"}

Fields == {RequiredFields[i] : i \in 1..Len(RequiredFields)} \cup OptionalFields

Directions == {"inbound", "outbound"}
Sources == {"customer", "bot", "human_agent", "system"}

\* The instants Postgres parses as TIMESTAMPTZ, among the strings of the model.
Instants == {ToISOString(t) : t \in 0..MaxClock} \cup {"2026-02-25T10:00:00Z"}

NotNullViolation == "null value violates not-null constraint"
CheckViolation == "new row violates check constraint"
TypeViolation == "invalid input syntax for type"
UniqueViolation == "duplicate key value violates unique constraint conversation_events_pkey"

HasEvent(table, id) == \E i \in 1..Len(table) : table[i].event_id = id

RowsOf(table, id) == {i \in 1..Len(table) : table[i].event_id = id}

\* one event per conversation: a row of the same conversation_id is a duplicate
InsertErrorPerConversation(table, row) ==
    IF \E f \in {"event_id", "conversation_id", "merchant_id", "timestamp"} : row[f].k = "null"
        THEN NotNullViolation
    ELSE IF \E i \in 1..Len(table) : table[i].conversation_id = row.conversation_id
        THEN UniqueViolation
    ELSE ""

\* The error Postgres raises for INSERT of row, "" when it accepts the row.
\* Column constraints are checked before the primary-key index.
InsertError(table, row) ==
    IF \E f \in {"event_id", "conversation_id", "merchant_id", "timestamp"} : row[f].k = "null"
        THEN NotNullViolation
    ELSE IF ~(row.timestamp.k = "string" /\ row.timestamp.s \in Instants)
        THEN TypeViolation
    ELSE IF row.direction.k /= "null"
            /\ ~(row.direction.k = "string" /\ row.direction.s \in Directions)
        THEN CheckViolation
    ELSE IF row.source.k /= "null"
            /\ ~(row.source.k = "string" /\ row.source.s \in Sources)
        THEN CheckViolation
    ELSE IF HasEvent(table, row.event_id)
        THEN UniqueViolation
    ELSE ""

\* An upsert in place of the insert: a row with the same key is replaced.
UpsertResult(table, row) ==
    IF HasEvent(table, row.event_id)
        THEN [table |-> [i \in 1..Len(table) |->
                            IF table[i].event_id = row.event_id THEN row ELSE table[i]],
              error |-> ""]
        ELSE [table |-> Append(table, row), error |-> ""]

\* supabase.from("conversation_events").insert(row): the table afterwards (one
\* more row, or the same table on error) and the error returned.
InsertResult(table, row) ==
    IF InsertError(table, row) = ""
        THEN [table |-> Append(table, row), error |-> ""]
        ELSE [table |-> table, error |-> InsertError(table, row)]

-----------------------------------------------------------------------------
(* The handler of POST /api/log-event *)

NoBody == [k |-> "undefined", f |-> [x \in Fields |-> Undefined]]
Body(f) == [k |-> "object", f |-> f]

NoRow == [x \in Fields |-> Undefined]

NoResponse == [status |-> 0, ok |-> FALSE, error |-> "", names |-> <<>>]
JsonOk == [status |-> 200, ok |-> TRUE, error |-> "", names |-> <<>>]
JsonError(status, message) ==
    [status |-> status, ok |-> FALSE, error |-> message, names |-> <<>>]

\* no check of the verb
MethodAllowedAny(method) == TRUE

\* req.method !== "POST", negated
MethodAllowed(method) == method = "POST"

\* any non-empty header passes
AuthenticatedAnyHeader(authHeader) == Truthy(authHeader)

\* !authHeader || authHeader !== `Bearer ${LOGGER_API_KEY}`, negated
Authenticated(authHeader) ==
    Truthy(authHeader) /\ authHeader.s = "Bearer " \o Template(LOGGER_API_KEY)

\* !event || !event.event_id || !event.conversation_id || !event.merchant_id, negated
HasRequired(event) ==
    /\ event.k /= "undefined"
    /\ \A i \in 1..Len(RequiredFields) : Truthy(event.f[RequiredFields[i]])

\* The fixed text of the 400 response: the message and the fields it lists.
MissingFieldsResponse ==
    [status |-> 400, ok |-> FALSE, error |-> "Missing required fields",
     names |-> RequiredFields]

\* timestamp mapped like the other optional fields, without its default
MapRowNoDefault(event, t) ==
    [x \in Fields |->
        IF x \in {"event_id", "conversation_id", "merchant_id"} THEN event.f[x]
        ELSE OrElse(event.f[x], Null)]

\* an empty model_calls array mapped to null, as a test of its length would
MapRowEmptyAsNull(event, t) ==
    [x \in Fields |->
        IF x \in {"event_id", "conversation_id", "merchant_id"} THEN event.f[x]
        ELSE IF x = "timestamp" THEN OrElse(event.f[x], Str(ToISOString(t)))
        ELSE IF event.f[x].k = "array" /\ Len(event.f[x].a) = 0 THEN Null
        ELSE OrElse(event.f[x], Null)]

\* The object handed to insert(): lines 31-49.
MapRow(event, t) ==
    [x \in Fields |->
        IF x \in {"event_id", "conversation_id", "merchant_id"} THEN event.f[x]
        ELSE IF x = "timestamp" THEN OrElse(event.f[x], Str(ToISOString(t)))
        ELSE OrElse(event.f[x], Null)]

\* the credential checked before the verb
HandlerEntryAuthFirst(r, t) ==
    IF ~Authenticated(r.auth)
        THEN [r EXCEPT !.pc = "done", !.resp = JsonError(401, "Unauthorized")]
    ELSE IF ~MethodAllowed(r.method)
        THEN [r EXCEPT !.pc = "done", !.resp = JsonError(405, "Method not allowed")]
    ELSE IF ~HasRequired(r.body)
        THEN [r EXCEPT !.pc = "done", !.authed = TRUE, !.resp = MissingFieldsResponse]
    ELSE [r EXCEPT !.pc = "inserting", !.authed = TRUE, !.at = t,
                   !.row = MapRow(r.body, t)]

\* The handler from its entry to its first await (or to its early return).
HandlerEntry(r, t) ==
    IF ~MethodAllowed(r.method)
        THEN [r EXCEPT !.pc = "done", !.resp = JsonError(405, "Method not allowed")]
    ELSE IF ~Authenticated(r.auth)
        THEN [r EXCEPT !.pc = "done", !.resp = JsonError(401, "Unauthorized")]
    ELSE IF ~HasRequired(r.body)
        THEN [r EXCEPT !.pc = "done", !.authed = TRUE, !.resp = MissingFieldsResponse]
    ELSE [r EXCEPT !.pc = "inserting", !.authed = TRUE, !.at = t,
                   !.row = MapRow(r.body, t)]

\* the error of the insert ignored
HandlerResumeAlwaysOk(r) == [r EXCEPT !.pc = "done", !.resp = JsonOk]

\* The handler after the await: lines 52-57.
HandlerResume(r) ==
    IF r.err /= ""
        THEN [r EXCEPT !.pc = "done", !.resp = JsonError(500, r.err)]
        ELSE [r EXCEPT !.pc = "done", !.resp = JsonOk]

NewRequest(method, auth, body, origin) ==
    [method |-> method, auth |-> auth, body |-> body, origin |-> origin,
     pc |-> "received", authed |-> FALSE, at |-> 0, row |-> NoRow,
     attempts |-> 0, err |-> "", resp |-> NoResponse]

-----------------------------------------------------------------------------
(* Requests the endpoint is probed with *)

Secret == "s3cret"

Methods == {"POST", "GET"}

AuthHeaders ==
    {Undefined, Str("Bearer " \o Secret), Str("Bearer undefined"), Str("Bearer wrong")}

EmptyEvent == [x \in Fields |-> Undefined]

Event(event_id, conversation_id, merchant_id) ==
    [EmptyEvent EXCEPT !["event_id"] = event_id,
                       !["conversation_id"] = conversation_id,
                       !["merchant_id"] = merchant_id]

E1 == Event(Str("e1"), Str("c1"), Str("m1"))
E2 == Event(Str("e2"), Str("c1"), Str("m1"))

\* a required identifier left out, or left empty
IdEvents ==
    {Event(e, c, Str("m1")) : e \in {Undefined, Str(""), Str("e1")},
                              c \in {Undefined, Str("c1")}}
    \cup {Event(Str("e1"), Str("c1"), Undefined)}

\* one optional field supplied
OptionalValues ==
    {<<"direction", Str("inbound")>>, <<"direction", Str("sideways")>>,
     <<"source", Str("bot")>>, <<"timestamp", Str("2026-02-25T10:00:00Z")>>}

OptionEvents == {[E1 EXCEPT ![o[1]] = o[2]] : o \in OptionalValues}

Events == {E1, E2} \cup IdEvents \cup OptionEvents

Requests ==
    {NewRequest(m, h, b, 0) : m \in Methods, h \in AuthHeaders, b \in {NoBody, Body(E1)}}
    \cup {NewRequest("POST", Str("Bearer " \o Secret), Body(e), 0) : e \in Events}

-----------------------------------------------------------------------------
(* Actions of the endpoint *)

\* A client other than the dispatcher sends a request: the function is invoked
\* with it and runs to its first await or to its early return.
ClientRequest ==
    /\ Len(reqs) < MaxReq
    /\ \E r \in Requests : reqs' = Append(reqs, HandlerEntry(r, now))
    /\ UNCHANGED <<LOGGER_API_KEY, conversation_events, now, pyenv, pipeline, calls>>

\* Postgres executes the INSERT of one request, atomically.
StoreInsert ==
    \E i \in DOMAIN reqs :
        /\ reqs[i].pc = "inserting"
        /\ conversation_events' = InsertResult(conversation_events, reqs[i].row).table
        /\ reqs' = [reqs EXCEPT ![i].pc = "inserted",
                                ![i].attempts = @ + 1,
                                ![i].err = InsertResult(conversation_events, reqs[i].row).error]
        /\ UNCHANGED <<LOGGER_API_KEY, now, pyenv, pipeline, calls>>

\* The await resolves and the handler responds.
HandlerEnd ==
    \E i \in DOMAIN reqs :
        /\ reqs[i].pc = "inserted"
        /\ reqs' = [reqs EXCEPT ![i] = HandlerResume(@)]
        /\ UNCHANGED <<LOGGER_API_KEY, conversation_events, now, pyenv, pipeline, calls>>

Tick ==
    /\ now < MaxClock
    /\ now' = now + 1
    /\ UNCHANGED <<LOGGER_API_KEY, conversation_events, reqs, pyenv, pipeline, calls>>

-----------------------------------------------------------------------------
(* The dispatcher: conversation_logger.py *)

Endpoint == "https://logger.example/api/log-event"

NotConfigured == "Conversation logger not configured: missing LOGGER_ENDPOINT or LOGGER_API_KEY"
TimedOut == "Conversation logger timed out"
Failed == "Conversation logger failed"
ReceivedStatus(status) == "Conversation logger received status " \o ToString(status)

\* the warning only when both are missing
ConfiguredEither(env) == Truthy(env.LOGGER_ENDPOINT) \/ Truthy(env.LOGGER_API_KEY)

\* not LOGGER_ENDPOINT or not LOGGER_API_KEY, negated (None and "" are falsy)
Configured(env) == Truthy(env.LOGGER_ENDPOINT) /\ Truthy(env.LOGGER_API_KEY)

\* fire_log up to the point where it returns or blocks: with a running loop the
\* coroutine becomes a task and fire_log returns; without one get_running_loop
\* raises RuntimeError and asyncio.run runs the coroutine to its end.
FireLogEntry(event, serializable, ctx) ==
    [event |-> event, serializable |-> serializable, ctx |-> ctx,
     caller |-> IF ctx = "loop" THEN "returned" ELSE "in_fire_log",
     task |-> "created", sent |-> 0, req |-> 0, raised |-> "", log |-> <<>>]

\* asyncio.run returns, or raises what the coroutine raised into
\* "except Exception: pass".
FireLogExit(c) == [c EXCEPT !.caller = "returned"]

\* the failed send is tried again
LogEventExceptRetry(c, exc) ==
    [c EXCEPT !.task = "created", !.log = Append(@, IF exc = "TimeoutException" THEN TimedOut ELSE Failed)]

\* only the timeout is caught
LogEventExceptTimeoutOnly(c, exc) ==
    IF exc = "TimeoutException"
        THEN [c EXCEPT !.task = "done", !.log = Append(@, TimedOut)]
        ELSE [c EXCEPT !.task = "done", !.raised = exc]

\* except httpx.TimeoutException / except Exception as e
LogEventExcept(c, exc) ==
    IF exc = "TimeoutException"
        THEN [c EXCEPT !.task = "done", !.log = Append(@, TimedOut)]
        ELSE [c EXCEPT !.task = "done", !.log = Append(@, Failed)]

\* _log_event from its start to "await client.post": the configuration check,
\* then the request is built (json=event_data) and the send begins.
LogEventStart(c, env) ==
    IF ~Configured(env)
        THEN [c EXCEPT !.task = "done", !.log = Append(@, NotConfigured)]
    ELSE IF ~c.serializable
        THEN LogEventExcept(c, "TypeError")
    ELSE [c EXCEPT !.task = "sending", !.sent = @ + 1]

\* the event kept in a variable the calls share: the last one dispatched is sent
PostRequestShared(c, env, d) ==
    NewRequest("POST", Str("Bearer " \o env.LOGGER_API_KEY.s),
               Body(calls[Len(calls)].event), d)

\* The request client.post puts on the wire.
PostRequest(c, env, d) ==
    NewRequest("POST", Str("Bearer " \o env.LOGGER_API_KEY.s), Body(c.event), d)

\* _log_event after the await: the status check, then the coroutine ends.
LogEventResponse(c, status) ==
    IF status /= 200
        THEN [c EXCEPT !.task = "done", !.log = Append(@, ReceivedStatus(status))]
        ELSE [c EXCEPT !.task = "done"]

\* event_data of a call, and whether json can serialize it
Payloads == {<<E1, TRUE>>, <<E2, TRUE>>, <<E1, FALSE>>}

Contexts == {"loop", "no_loop"}

TransportExceptions == {"TimeoutException", "ConnectError"}

-----------------------------------------------------------------------------
(* Actions of the dispatcher.  The pipeline is one thread, either a         *)
(* coroutine of a running event loop or plain synchronous code; it calls   *)
(* fire_log again only after the previous call returned.                   *)

FireLog ==
    /\ Len(calls) < MaxCalls
    /\ \A d \in DOMAIN calls : calls[d].caller /= "in_fire_log"
    /\ \E p \in Payloads : calls' = Append(calls, FireLogEntry(p[1], p[2], pipeline))
    /\ UNCHANGED <<LOGGER_API_KEY, conversation_events, reqs, now, pyenv, pipeline>>

\* The event loop runs the coroutine to its first await.
TaskStartOf(d) ==
    /\ calls[d].task = "created"
    /\ calls[d].sent < SendCap
    /\ calls' = [calls EXCEPT ![d] = LogEventStart(@, pyenv)]
    /\ UNCHANGED <<LOGGER_API_KEY, conversation_events, reqs, now, pyenv, pipeline>>

TaskStart == \E d \in DOMAIN calls : TaskStartOf(d)

\* The request reaches the endpoint: the function is invoked with it and runs
\* to its first await or to its early return.
DeliverOf(d) ==
    /\ calls[d].task = "sending"
    /\ Len(reqs) < MaxReq
    /\ reqs' = Append(reqs, HandlerEntry(PostRequest(calls[d], pyenv, d), now))
    /\ calls' = [calls EXCEPT ![d].task = "awaiting", ![d].req = Len(reqs) + 1]
    /\ UNCHANGED <<LOGGER_API_KEY, conversation_events, now, pyenv, pipeline>>

Deliver == \E d \in DOMAIN calls : DeliverOf(d)

\* The connection fails, or the 5 s timeout expires, before a response.
TransportError ==
    \E d \in DOMAIN calls, exc \in TransportExceptions :
        /\ calls[d].task \in {"sending", "awaiting"}
        /\ calls' = [calls EXCEPT ![d] = LogEventExcept(@, exc)]
        /\ UNCHANGED <<LOGGER_API_KEY, conversation_events, reqs, now, pyenv, pipeline>>

\* The endpoint's response reaches the coroutine.
TaskResponse ==
    \E d \in DOMAIN calls :
        /\ calls[d].task = "awaiting"
        /\ reqs[calls[d].req].pc = "done"
        /\ calls' = [calls EXCEPT ![d] = LogEventResponse(@, reqs[calls[d].req].resp.status)]
        /\ UNCHANGED <<LOGGER_API_KEY, conversation_events, reqs, now, pyenv, pipeline>>

\* asyncio.run ends and fire_log returns to the pipeline.
FireLogReturn ==
    \E d \in DOMAIN calls :
        /\ calls[d].caller = "in_fire_log"
        /\ calls[d].task = "done"
        /\ calls' = [calls EXCEPT ![d] = FireLogExit(@)]
        /\ UNCHANGED <<LOGGER_API_KEY, conversation_events, reqs, now, pyenv, pipeline>>

-----------------------------------------------------------------------------

Init ==
    /\ LOGGER_API_KEY \in {Undefined, Str(Secret)}
    /\ conversation_events = <<>>
    /\ reqs = <<>>
    /\ now = 0
    /\ pyenv = [LOGGER_ENDPOINT |-> Null, LOGGER_API_KEY |-> Null]
    /\ pipeline = "loop"
    /\ calls = <<>>

Next == ClientRequest \/ StoreInsert \/ HandlerEnd \/ Tick

Spec == Init /\ [][Next]_vars

\* The pipeline's dispatcher in front of the endpoint.
InitDispatch ==
    /\ LOGGER_API_KEY = Str(Secret)
    /\ conversation_events = <<>>
    /\ reqs = <<>>
    /\ now = 0
    /\ pyenv \in [LOGGER_ENDPOINT : {Null, Str(Endpoint)},
                  LOGGER_API_KEY : {Null, Str(""), Str(Secret), Str("wrong")}]
    /\ pipeline \in Contexts
    /\ calls = <<>>

NextDispatch ==
    \/ FireLog \/ TaskStart \/ Deliver \/ TransportError \/ TaskResponse \/ FireLogReturn
    \/ StoreInsert \/ HandlerEnd

SpecDispatch == InitDispatch /\ [][NextDispatch]_vars

\* The dispatcher configured, in a pipeline that keeps running: the event loop
\* runs every task it was given, and a send without response ends at the
\* timeout of AsyncClient(timeout=5.0).
InitSend ==
    /\ LOGGER_API_KEY = Str(Secret)
    /\ conversation_events = <<>>
    /\ reqs = <<>>
    /\ now = 0
    /\ pyenv = [LOGGER_ENDPOINT |-> Str(Endpoint), LOGGER_API_KEY |-> Str(Secret)]
    /\ pipeline \in Contexts
    /\ calls = <<>>

\* The pipeline logs one event at each of its steps, once with a value json
\* cannot serialize.
SendPayloads == {<<E1, TRUE>>, <<E1, FALSE>>}

FireLogSend ==
    /\ Len(calls) < MaxCalls
    /\ \A d \in DOMAIN calls : calls[d].caller /= "in_fire_log"
    /\ \E p \in SendPayloads : calls' = Append(calls, FireLogEntry(p[1], p[2], pipeline))
    /\ UNCHANGED <<LOGGER_API_KEY, conversation_events, reqs, now, pyenv, pipeline>>

NextSend ==
    \/ FireLogSend \/ TaskStart \/ Deliver \/ TransportError \/ TaskResponse
    \/ FireLogReturn \/ StoreInsert \/ HandlerEnd

SpecSend ==
    InitSend /\ [][NextSend]_vars /\ WF_vars(TaskStart) /\ WF_vars(TransportError)

-----------------------------------------------------------------------------
(* The endpoint fed events whose optional fields are filled *)

\* Station names of model_calls entries: one the pipeline has, one it may gain.
Steps == {"intention_agent", "new_station"}

\* The arrays of at most n entries, an entry standing for its step.
RECURSIVE StepSeqs(_)
StepSeqs(n) ==
    IF n = 0 THEN {<<>>}
    ELSE StepSeqs(n - 1)
         \cup {Append(q, x) : q \in {p \in StepSeqs(n - 1) : Len(p) = n - 1}, x \in Steps}

\* one optional field supplied, with the values the JSON body can carry for it
FieldValues ==
    {<<"model_calls", Arr(q)>> : q \in StepSeqs(MaxSteps)}
    \cup {<<"response_time_ms", Num(n)>> : n \in 0..MaxMs}
    \cup {<<"message", Obj("{\"text\":\"hi\"}")>>, <<"message", Str("")>>,
          <<"eval", Obj("{\"response_quality\":5}")>>,
          <<"metadata", Obj("{}")>>}

FieldEvents == {[E1 EXCEPT ![o[1]] = o[2]] : o \in FieldValues} \cup {E1, E2}

FieldRequests ==
    {NewRequest("POST", Str("Bearer " \o Secret), Body(e), 0) : e \in FieldEvents}

\* The pipeline's client posts an event with the endpoint's key.
FieldRequest ==
    /\ Len(reqs) < MaxReq
    /\ \E r \in FieldRequests : reqs' = Append(reqs, HandlerEntry(r, now))
    /\ UNCHANGED <<LOGGER_API_KEY, conversation_events, now, pyenv, pipeline, calls>>

InitFields ==
    /\ LOGGER_API_KEY = Str(Secret)
    /\ conversation_events = <<>>
    /\ reqs = <<>>
    /\ now = 0
    /\ pyenv = [LOGGER_ENDPOINT |-> Null, LOGGER_API_KEY |-> Null]
    /\ pipeline = "loop"
    /\ calls = <<>>

NextFields == FieldRequest \/ StoreInsert \/ HandlerEnd

SpecFields == InitFields /\ [][NextFields]_vars

-----------------------------------------------------------------------------
(* The endpoint with its awaits resolving *)

\* One request for each way through the handler: another verb, a wrong
\* credential, no body, an event the table takes, an event it refuses.
PathRequests ==
    {NewRequest("GET", Str("Bearer " \o Secret), Body(E1), 0),
     NewRequest("POST", Str("Bearer wrong"), Body(E1), 0),
     NewRequest("POST", Str("Bearer " \o Secret), NoBody, 0),
     NewRequest("POST", Str("Bearer " \o Secret), Body(E1), 0),
     NewRequest("POST", Str("Bearer " \o Secret), Body(E2), 0),
     NewRequest("POST", Str("Bearer " \o Secret),
                Body([E1 EXCEPT !["direction"] = Str("sideways")]), 0)}

PathRequest ==
    /\ Len(reqs) < MaxReq
    /\ \E r \in PathRequests : reqs' = Append(reqs, HandlerEntry(r, now))
    /\ UNCHANGED <<LOGGER_API_KEY, conversation_events, now, pyenv, pipeline, calls>>

NextLive == PathRequest \/ StoreInsert \/ HandlerEnd \/ Tick

\* The store answers every insert and the runtime resumes the handler.
SpecLive ==
    InitFields /\ [][NextLive]_vars /\ WF_vars(StoreInsert) /\ WF_vars(HandlerEnd)

-----------------------------------------------------------------------------
(* Vocabulary of the properties *)

Handled(i) == reqs[i].pc /= "received"
Finished(i) == reqs[i].pc = "done"

\* The store accepted the insert of request i.
Written(i) == reqs[i].attempts > 0 /\ reqs[i].err = ""

\* The credential is the one the endpoint holds: "Bearer " and then the secret
\* as the handler interpolates it.
GoodCredential(h) == h.k = "string" /\ h.s = "Bearer " \o Template(LOGGER_API_KEY)

\* The required identifiers a body lacks.
MissingOf(body) ==
    IF body.k = "undefined" THEN {"event_id", "conversation_id", "merchant_id"}
    ELSE {x \in {"event_id", "conversation_id", "merchant_id"} :
             body.f[x].k /= "string" \/ body.f[x].s = ""}

NamesOf(resp) == {resp.names[j] : j \in 1..Len(resp.names)}

\* The optional values of the body are ones the table's columns take.
Conforms(body) ==
    /\ body.f["direction"].k = "undefined" \/ body.f["direction"] \in {Str(d) : d \in Directions}
    /\ body.f["source"].k = "undefined" \/ body.f["source"] \in {Str(x) : x \in Sources}
    /\ body.f["timestamp"].k = "undefined" \/ body.f["timestamp"] \in {Str(x) : x \in Instants}

\* The table holds one row for each accepted insert and nothing else.
TableAccounts ==
    Len(conversation_events) = Cardinality({i \in DOMAIN reqs : Written(i)})

-----------------------------------------------------------------------------
(* C1 *)

-----------------------------------------------------------------------------
(* C2 *)

\* What C2 says of request i over one step: the handler maps the body (ids as
\* submitted, unspecified optional fields null, timestamp the current instant when
\* omitted) and goes on to insert; the insert of an event_id not in the table adds
\* that one row; the handler then answers 200 {"ok":true}.
C2_Step(i, conforming) ==
    LET r == reqs'[i]
        valid == /\ r.method = "POST" /\ GoodCredential(r.auth)
                 /\ MissingOf(r.body) = {}
                 /\ conforming => Conforms(r.body)
    IN  valid =>
          /\ (r.pc /= "received" /\ (i > Len(reqs) \/ reqs[i].pc = "received")) =>
                /\ r.pc = "inserting"
                /\ \A x \in {"event_id", "conversation_id", "merchant_id"} :
                       r.row[x] = r.body.f[x]
                /\ \A x \in OptionalFields \ {"timestamp"} :
                       r.body.f[x].k = "undefined" => r.row[x] = Null
                /\ r.body.f["timestamp"].k = "undefined" =>
                       r.row["timestamp"] = Str(ToISOString(now))
          /\ (i <= Len(reqs) /\ reqs[i].pc = "inserting" /\ r.pc /= "inserting"
                /\ ~HasEvent(conversation_events, r.body.f["event_id"])) =>
                /\ conversation_events' = Append(conversation_events, reqs[i].row)
                /\ Written(i)'
                /\ Cardinality(RowsOf(conversation_events', r.body.f["event_id"])) = 1
          /\ (i <= Len(reqs) /\ reqs[i].pc = "inserted" /\ r.pc = "done" /\ Written(i)) =>
                r.resp = JsonOk

\* C2 (as stated): every event with the three identifiers non-empty and an
\* event_id not in the store, posted with the correct credential, is answered 200
\* and adds exactly one record with the submitted identifiers, null for the
\* unspecified fields and the ingestion instant for an omitted timestamp.
C2_ValidEventStored ==
    [][\A i \in DOMAIN reqs' : C2_Step(i, FALSE)]_vars

\* C2 (amended): the same for every such event whose supplied direction, source
\* and timestamp are values the table accepts.
C2_ConformingEventStored ==
    [][\A i \in DOMAIN reqs' : C2_Step(i, TRUE)]_vars

\* An event without timestamp was answered 200 and its row, stamped with a
\* clock reading after the first, is the one row of its key.
C2_Witness ==
    \E i \in DOMAIN reqs :
        /\ reqs[i].resp = JsonOk
        /\ reqs[i].body.f["timestamp"] = Undefined
        /\ reqs[i].body.f["direction"] = Str("inbound")
        /\ reqs[i].row["timestamp"] = Str(ToISOString(1))
        /\ \E j \in DOMAIN conversation_events : conversation_events[j] = reqs[i].row
        /\ Cardinality(RowsOf(conversation_events, reqs[i].body.f["event_id"])) = 1

-----------------------------------------------------------------------------
(* C3 *)

\* C3: an authenticated POST whose body is absent or lacks a non-empty required
\* identifier writes nothing and is answered 400 with a message naming exactly
\* the fields that request is missing.
C3_NamesMissingFields ==
    \A i \in DOMAIN reqs :
        (/\ Handled(i) /\ reqs[i].method = "POST" /\ GoodCredential(reqs[i].auth)
         /\ MissingOf(reqs[i].body) /= {}) =>
            /\ reqs[i].resp.status = 400
            /\ reqs[i].attempts = 0
            /\ NamesOf(reqs[i].resp) = MissingOf(reqs[i].body)

-----------------------------------------------------------------------------
(* C4 *)

\* C4: the insert of an event_id already in the table changes nothing in the
\* table and returns an error, and the handler answers 500 with that error's
\* message: the key keeps its one, original row.
C4_ResubmitIsStoreFailure ==
    [][\A i \in DOMAIN reqs :
         /\ (reqs[i].pc = "inserting" /\ reqs'[i].pc /= "inserting"
             /\ HasEvent(conversation_events, reqs[i].row["event_id"])) =>
                /\ conversation_events' = conversation_events
                /\ reqs'[i].err /= ""
                /\ Cardinality(RowsOf(conversation_events', reqs[i].row["event_id"])) = 1
         /\ (reqs[i].pc = "inserted" /\ reqs'[i].pc = "done" /\ reqs[i].err /= "") =>
                reqs'[i].resp = JsonError(500, reqs[i].err)]_vars

\* An event was stored, then posted again with another content and answered
\* 500 with the key violation; the table holds the first row only.
C4_Witness ==
    \E i, j \in DOMAIN reqs :
        /\ i < j
        /\ reqs[i].resp = JsonOk
        /\ reqs[j].resp = JsonError(500, UniqueViolation)
        /\ reqs[j].row["event_id"] = reqs[i].row["event_id"]
        /\ reqs[j].row /= reqs[i].row
        /\ conversation_events = <<reqs[i].row>>

-----------------------------------------------------------------------------
(* C7 *)

\* C7: with LOGGER_API_KEY unset at the endpoint no request is authenticated
\* and no record is written.
C7_FailsClosed ==
    LOGGER_API_KEY = Undefined =>
        /\ conversation_events = <<>>
        /\ \A i \in DOMAIN reqs : ~reqs[i].authed /\ reqs[i].attempts = 0

-----------------------------------------------------------------------------
(* Vocabulary of the dispatcher's properties *)

Absent(v) == v.k /= "string" \/ v.s = ""

\* The endpoint URL or the shared secret is absent from the dispatcher's environment.
ConfigMissing == Absent(pyenv.LOGGER_ENDPOINT) \/ Absent(pyenv.LOGGER_API_KEY)

-----------------------------------------------------------------------------
(* C5 *)

\* The send of call d is under way: begun and not yet ended.
InFlight(d) == calls[d].task \in {"sending", "awaiting"}

\* C5: in no reachable state is the caller still inside fire_log while the send
\* of that call is in flight or waiting on the endpoint.
C5_ReturnsBeforeSend ==
    \A d \in DOMAIN calls : ~(calls[d].caller = "in_fire_log" /\ InFlight(d))

-----------------------------------------------------------------------------
(* C6 *)

\* The endpoint acknowledged the request of call d with 200.
Acknowledged(d) == calls[d].req /= 0 /\ reqs[calls[d].req].resp.status = 200

\* C6: the caller of fire_log never observes an error and nothing escapes the
\* coroutine; a send that ended without a 200 from the endpoint (configuration
\* missing, serialization error, connection failure, timeout, other status) left
\* exactly one warning in the local log, the one for that failure.
C6_FailuresStayLocal ==
    \A d \in DOMAIN calls :
        /\ calls[d].caller \in {"in_fire_log", "returned"}
        /\ calls[d].raised = ""
        /\ Len(calls[d].log) <= 1
        /\ calls[d].task = "done" =>
            /\ ~Acknowledged(d) => Len(calls[d].log) = 1
            /\ ConfigMissing => calls[d].log = <<NotConfigured>>
            /\ (~ConfigMissing /\ ~calls[d].serializable) => calls[d].log = <<Failed>>
            /\ (calls[d].sent > 0 /\ calls[d].log /= <<>>) =>
                 \/ calls[d].log[1] \in {TimedOut, Failed}
                 \/ /\ calls[d].req /= 0
                    /\ reqs[calls[d].req].resp.status \notin {0, 200}
                    /\ calls[d].log[1] = ReceivedStatus(reqs[calls[d].req].resp.status)

\* Without a running loop, one call ended in a connection failure and another
\* in a 500 from the endpoint; both returned to the pipeline.
C6_Witness ==
    \E d, e \in DOMAIN calls :
        /\ calls[d].ctx = "no_loop" /\ calls[e].ctx = "no_loop"
        /\ calls[d].caller = "returned" /\ calls[e].caller = "returned"
        /\ calls[d].log = <<Failed>> /\ calls[d].sent = 1
        /\ calls[e].log = <<ReceivedStatus(500)>>

-----------------------------------------------------------------------------
(* C8 *)

\* C8: when LOGGER_ENDPOINT or LOGGER_API_KEY is missing, no call sends
\* anything to the endpoint, no call raises into its caller, and a call whose
\* coroutine has run logged the one warning that the logger is not configured.
C8_UnconfiguredIsNoOp ==
    ConfigMissing =>
        /\ reqs = <<>>
        /\ \A d \in DOMAIN calls :
            /\ calls[d].sent = 0 /\ calls[d].req = 0
            /\ calls[d].caller \in {"in_fire_log", "returned"}
            /\ calls[d].raised = ""
            /\ calls[d].task \in {"created", "done"}
            /\ calls[d].log = IF calls[d].task = "done" THEN <<NotConfigured>> ELSE <<>>

\* The endpoint is configured and the secret is not; two calls made without a
\* running loop both logged the warning and returned.
C8_Witness ==
    /\ ~Absent(pyenv.LOGGER_ENDPOINT) /\ Absent(pyenv.LOGGER_API_KEY)
    /\ \E d, e \in DOMAIN calls :
        /\ d /= e
        /\ calls[d].ctx = "no_loop" /\ calls[e].ctx = "no_loop"
        /\ calls[d].caller = "returned" /\ calls[e].caller = "returned"
        /\ calls[d].log = <<NotConfigured>> /\ calls[e].log = <<NotConfigured>>

-----------------------------------------------------------------------------
(* C9 *)

RequestsOf(d) == {i \in DOMAIN reqs : reqs[i].origin = d}

\* C9: a fire_log call makes at most one send and at most one request of it
\* reaches the endpoint; a request makes at most one insert attempt; and a
\* call whose send has ended, or a request that was answered, makes none later.
C9_NoRetries ==
    /\ \A d \in DOMAIN calls :
        /\ calls[d].sent <= 1
        /\ Cardinality(RequestsOf(d)) <= 1
        /\ calls[d].task = "done" => Len(calls[d].log) <= 1
    /\ \A i \in DOMAIN reqs :
        /\ reqs[i].attempts <= 1
        /\ reqs[i].pc = "done" => reqs[i].attempts = IF reqs[i].resp.status \in {200, 500} THEN 1 ELSE 0

\* One call's send failed and was not repeated, another call's request was
\* refused by the store and not repeated; both calls are over.
C9_Witness ==
    \E d, e \in DOMAIN calls :
        /\ calls[d].task = "done" /\ calls[d].log = <<TimedOut>> /\ calls[d].sent = 1
        /\ calls[e].task = "done" /\ calls[e].log = <<ReceivedStatus(500)>>
        /\ reqs[calls[e].req].attempts = 1
        /\ reqs[calls[e].req].err = UniqueViolation

-----------------------------------------------------------------------------
(* C10 *)

\* C10: a request whose verb is not POST is answered 405 Method not allowed
\* and never reaches the store.
C10_OtherVerbIs405 ==
    /\ TableAccounts
    /\ \A i \in DOMAIN reqs :
        (Handled(i) /\ reqs[i].method /= "POST") =>
            /\ Finished(i)
            /\ reqs[i].resp = JsonError(405, "Method not allowed")
            /\ reqs[i].attempts = 0
            /\ ~reqs[i].authed

\* A GET with the correct credential and a valid body was answered 405 while
\* the table, which held a row, kept it.
C10_Witness ==
    \E i \in DOMAIN reqs :
        /\ reqs[i].method = "GET"
        /\ GoodCredential(reqs[i].auth)
        /\ MissingOf(reqs[i].body) = {}
        /\ reqs[i].resp.status = 405
        /\ Len(conversation_events) = 1

-----------------------------------------------------------------------------
(* C11 *)

\* The row the table holds for the event of request i.
StoredRow(i) ==
    conversation_events[CHOOSE k \in RowsOf(conversation_events,
                                            reqs[i].body.f["event_id"]) : TRUE]

\* C11: a model_calls array of N entries (N >= 0, steps of any name) is handed to
\* the insert and stored as the same array, same length and same order; no step
\* name makes the endpoint reject the event: the only refusal such an event
\* meets is the one of an event_id already stored.
C11_ModelCallsKept ==
    \A i \in DOMAIN reqs :
        reqs[i].body.f["model_calls"].k = "array" =>
            /\ Handled(i) => reqs[i].row["model_calls"] = reqs[i].body.f["model_calls"]
            /\ Written(i) =>
                  /\ StoredRow(i)["model_calls"].k = "array"
                  /\ StoredRow(i)["model_calls"].a = reqs[i].body.f["model_calls"].a
            /\ reqs[i].pc = "inserted" => reqs[i].err \in {"", UniqueViolation}
            /\ Finished(i) => reqs[i].resp \in {JsonOk, JsonError(500, UniqueViolation)}
            /\ (Finished(i) /\ reqs[i].resp = JsonOk) => Written(i)

\* An event with an empty model_calls array was answered 200 and its row holds
\* the empty array; another with a repeated unknown step is stored as sent.
C11_Witness ==
    \E i \in DOMAIN reqs :
        /\ reqs[i].body.f["model_calls"] \in
               {Arr(<<>>), Arr(<<"new_station", "new_station">>),
                Arr(<<"new_station", "intention_agent">>)}
        /\ reqs[i].resp = JsonOk
        /\ StoredRow(i)["model_calls"] = reqs[i].body.f["model_calls"]

-----------------------------------------------------------------------------
(* C12 *)

\* C12: every optional field the event supplies is in the stored record with
\* the value submitted: no loss, no reordering, no coercion; response_time_ms
\* over all the non-negative integers.
C12_RoundTrip ==
    \A i \in DOMAIN reqs :
        Written(i) =>
            \A x \in OptionalFields :
                reqs[i].body.f[x].k /= "undefined" => StoredRow(i)[x] = reqs[i].body.f[x]

-----------------------------------------------------------------------------
(* C13 *)

\* C13: every record the ingestion path writes has eval null, whatever the
\* request body holds.
C13_EvalNullAtWrite ==
    \A k \in 1..Len(conversation_events) : conversation_events[k]["eval"] = Null

-----------------------------------------------------------------------------
(* C14 *)

Statuses == {405, 401, 400, 500, 200}

\* What holds of request i at every moment: no response before the end and one
\* of the five at the end; an insert only for an authenticated POST whose body
\* has the three identifiers, and at most one; a record iff the answer is 200.
C14_State(i) ==
    /\ IF Finished(i) THEN reqs[i].resp.status \in Statuses
                      ELSE reqs[i].resp = NoResponse
    /\ (reqs[i].pc \in {"inserting", "inserted"} \/ reqs[i].attempts > 0) =>
            /\ reqs[i].method = "POST"
            /\ GoodCredential(reqs[i].auth)
            /\ MissingOf(reqs[i].body) = {}
    /\ reqs[i].attempts <= 1
    /\ Finished(i) => (Written(i) <=> reqs[i].resp.status = 200)

\* C14: every request ends in exactly one response, of status 405, 401, 400,
\* 500 or 200 (it is reached, and once given it never changes); the insert is
\* attempted only after authentication and validation succeeded; the store
\* gains a record in a request if and only if the request is answered 200.
C14_OneResponse ==
    /\ [](TableAccounts /\ \A i \in DOMAIN reqs : C14_State(i))
    /\ [][\A i \in DOMAIN reqs : Finished(i) => reqs'[i] = reqs[i]]_vars
    /\ \A i \in 1..MaxReq :
          (i \in DOMAIN reqs) ~> (i \in DOMAIN reqs /\ Finished(i))

\* One request was answered 500 after its insert failed and left no record, and
\* another was answered 200 and left the only record.
C14_Witness ==
    \E i, j \in DOMAIN reqs :
        /\ reqs[i].resp.status = 500 /\ reqs[i].attempts = 1 /\ ~Written(i)
        /\ reqs[j].resp.status = 200 /\ Written(j)
        /\ Len(conversation_events) = 1

-----------------------------------------------------------------------------
(* C15 *)

\* Request i is a POST with the correct credential whose event has the three
\* identifiers and optional values the table takes: it reaches the insert and
\* only the key can make the insert fail.
Acceptable(i) ==
    /\ reqs[i].method = "POST"
    /\ GoodCredential(reqs[i].auth)
    /\ MissingOf(reqs[i].body) = {}
    /\ Conforms(reqs[i].body)

SameEvent(i, j) == reqs[i].body.f["event_id"] = reqs[j].body.f["event_id"]

\* The stored row is the event of request i: the identifiers and every optional
\* value the body gave, the handler's instant for an omitted timestamp.
HoldsEventOf(row, i) ==
    /\ row = reqs[i].row
    /\ \A x \in Fields :
          IF Truthy(reqs[i].body.f[x]) THEN row[x] = reqs[i].body.f[x]
          ELSE IF x = "timestamp" THEN row[x] = Str(ToISOString(reqs[i].at))
          ELSE row[x] = Null

-----------------------------------------------------------------------------
(* C16 *)

\* C16: over every step of every request, each record of the store is still
\* there afterwards, at its place and with the same contents: records are only
\* added, never updated or deleted.
C16_AppendOnly ==
    [][/\ Len(conversation_events') >= Len(conversation_events)
       /\ \A k \in 1..Len(conversation_events) :
             conversation_events'[k] = conversation_events[k]]_vars

\* A record was committed, and a request for the same event_id with other
\* contents was then handled to its end: the record is the first request's.
C16_Witness ==
    \E i, j \in DOMAIN reqs :
        /\ Written(j) /\ Finished(j)
        /\ reqs[i].resp.status = 500
        /\ reqs[i].row["event_id"] = reqs[j].row["event_id"]
        /\ reqs[i].row /= reqs[j].row
        /\ conversation_events = <<reqs[j].row>>

-----------------------------------------------------------------------------
(* C17 *)

\* C17: the verb is checked before the credential and the credential before
\* the body: a request of another verb is answered 405 whatever its credential
\* and body; a POST with a bad credential is answered 401 even when its body is
\* invalid too, and its body is not looked at; 400 is the answer only of a POST
\* with the correct credential.
C17_CheckOrder ==
    \A i \in DOMAIN reqs :
        Handled(i) =>
            /\ reqs[i].method /= "POST" =>
                  /\ reqs[i].resp = JsonError(405, "Method not allowed")
                  /\ reqs[i].row = NoRow
            /\ (reqs[i].method = "POST" /\ ~GoodCredential(reqs[i].auth)) =>
                  /\ reqs[i].resp = JsonError(401, "Unauthorized")
                  /\ reqs[i].row = NoRow
            /\ reqs[i].resp.status = 400 =>
                  /\ reqs[i].method = "POST"
                  /\ GoodCredential(reqs[i].auth)
                  /\ MissingOf(reqs[i].body) /= {}

\* A POST without credential and without body was answered 401, and a request
\* of another verb, without credential and without body, 405.
C17_Witness ==
    \E i, j \in DOMAIN reqs :
        /\ reqs[i].method = "POST" /\ reqs[i].auth = Undefined
        /\ reqs[i].body = NoBody /\ reqs[i].resp.status = 401
        /\ reqs[j].method = "GET" /\ reqs[j].auth = Undefined
        /\ reqs[j].body = NoBody /\ reqs[j].resp.status = 405

-----------------------------------------------------------------------------
(* C18 *)

\* The ways a call's send ends: completed (a response came: nothing logged, or
\* its status), timed out, failed.
TerminalLogs ==
    {<<>>, <<TimedOut>>, <<Failed>>} \cup {<<ReceivedStatus(st)>> : st \in Statuses \ {200}}

\* Over one step, a call whose coroutine is over stays as it ended (only
\* fire_log's return to its caller is left) and no request of it appears.
C18_Over(d) ==
    calls[d].task = "done" =>
        /\ calls'[d].task = "done"
        /\ calls'[d].sent = calls[d].sent
        /\ calls'[d].req = calls[d].req
        /\ calls'[d].log = calls[d].log
        /\ calls'[d].raised = calls[d].raised
        /\ {i \in DOMAIN reqs' : reqs'[i].origin = d} = RequestsOf(d)

\* C18: the send of every call comes to an end, which is one of completed,
\* timed out or failed; from then on the dispatcher does nothing more for the
\* event and keeps nothing of it; no send stays pending forever.
C18_SendsEnd ==
    /\ \A d \in 1..MaxCalls :
          (d \in DOMAIN calls) ~> (d \in DOMAIN calls /\ calls[d].task = "done")
    /\ [](\A d \in DOMAIN calls :
              calls[d].task = "done" =>
                  /\ calls[d].log \in TerminalLogs
                  /\ calls[d].raised = ""
                  /\ calls[d].sent <= 1)
    /\ [][\A d \in DOMAIN calls : C18_Over(d)]_vars

\* One send ended at the timeout while its request was still being handled by
\* the endpoint, another ended with the response 200.
C18_Witness ==
    \E d, e \in DOMAIN calls :
        /\ calls[d].task = "done" /\ calls[d].log = <<TimedOut>>
        /\ calls[d].req > 0 /\ reqs[calls[d].req].pc = "inserting"
        /\ calls[e].task = "done" /\ calls[e].log = <<>>
        /\ calls[e].req > 0 /\ reqs[calls[e].req].resp = JsonOk

-----------------------------------------------------------------------------
(* C19 *)

\* Stores that differ from table only in records of event_ids other than id:
\* those records removed, and a record of another event_id with the contents of
\* row (the same conversation_id and merchant_id) added.
OtherStores(table, id, row) ==
    LET own == SelectSeq(table, LAMBDA r : r["event_id"] = id)
        other == [row EXCEPT !["event_id"] = Str("other")]
    IN  {own, Append(own, other), Append(table, other), <<other>> \o table}

\* Requests i and j are the same request: verb, Authorization header, body.
SameRequest(i, j) ==
    /\ reqs'[i].method = reqs'[j].method
    /\ reqs'[i].auth = reqs'[j].auth
    /\ reqs'[i].body = reqs'[j].body

\* C19: the response to a request and the record it writes depend only on the
\* request and on whether its event_id is in the store.  Over every step: the
\* same request, whenever it comes, is refused with the same response or mapped
\* to the same row (but for the instant of an omitted timestamp) without the
\* store being read or written; the insert of a request has the same result,
\* error and added record, in every store that differs only in records of other
\* event_ids; and the response after the insert depends on that result alone.
C19_Isolation ==
    [][\A i \in DOMAIN reqs' :
          /\ \A j \in DOMAIN reqs' :
                SameRequest(i, j) =>
                    /\ reqs'[i].pc = "done" /\ reqs'[i].attempts = 0
                          => reqs'[j].resp = reqs'[i].resp
                    /\ \A x \in Fields :
                          (x /= "timestamp" \/ Truthy(reqs'[i].body.f[x]))
                              => reqs'[i].row[x] = reqs'[j].row[x]
                    /\ (Finished(i)' /\ Finished(j)' /\ reqs'[i].err = reqs'[j].err)
                          => reqs'[j].resp = reqs'[i].resp
          /\ i > Len(reqs) => conversation_events' = conversation_events
          /\ (i <= Len(reqs) /\ reqs[i].pc = "inserting" /\ reqs'[i].pc = "inserted") =>
                \A store \in OtherStores(conversation_events, reqs[i].row["event_id"],
                                         reqs[i].row) :
                    LET there == InsertResult(store, reqs[i].row)
                    IN  /\ there.error = reqs'[i].err
                        /\ Len(there.table) - Len(store)
                             = Len(conversation_events') - Len(conversation_events)
                        /\ there.error = "" =>
                             there.table[Len(there.table)]
                               = conversation_events'[Len(conversation_events')]
      ]_vars

\* An event was stored and answered 200 while the store held a record of another
\* event_id with the same conversation_id and merchant_id.
C19_Witness ==
    /\ Len(conversation_events) = 2
    /\ conversation_events[1]["conversation_id"] = conversation_events[2]["conversation_id"]
    /\ conversation_events[1]["merchant_id"] = conversation_events[2]["merchant_id"]
    /\ \E i \in DOMAIN reqs :
          /\ reqs[i].resp = JsonOk
          /\ reqs[i].row = conversation_events[2]

-----------------------------------------------------------------------------
(* C20 *)

\* No other call dispatched an event with the event_id of call e's.
OwnEventId(e) ==
    \A d \in DOMAIN calls \ {e} : calls[d].event["event_id"] /= calls[e].event["event_id"]

\* C20: the calls are independent.  Whatever became of the other calls (sent,
\* failed, timed out, still pending), a call's coroutine can start, its send
\* can reach the endpoint, the request that arrives is its own event under the
\* dispatcher's key, and, when no other call carries its event_id, the request
\* is answered by that key alone: 200 with the event stored as sent, or 401.
\* (That the second of two events can be committed before the first is the
\* state C20_Witness.)
C20_Independent ==
    \A e \in DOMAIN calls :
        /\ calls[e].task = "created" => ENABLED TaskStartOf(e)
        /\ calls[e].task = "sending" => ENABLED DeliverOf(e)
        /\ calls[e].req > 0 =>
              LET i == calls[e].req
              IN  /\ reqs[i].origin = e
                  /\ reqs[i].method = "POST"
                  /\ reqs[i].body = Body(calls[e].event)
                  /\ reqs[i].auth = Str("Bearer " \o pyenv.LOGGER_API_KEY.s)
                  /\ (Finished(i) /\ OwnEventId(e)) =>
                        IF GoodCredential(reqs[i].auth)
                            THEN /\ reqs[i].resp = JsonOk
                                 /\ HoldsEventOf(StoredRow(i), i)
                            ELSE reqs[i].resp = JsonError(401, "Unauthorized")

\* Two events were dispatched one after the other and the second was committed
\* to the store before the first.
C20_Witness ==
    \E d, e \in DOMAIN calls :
        /\ d < e
        /\ calls[d].req > 0 /\ calls[e].req > 0
        /\ conversation_events = <<reqs[calls[e].req].row, reqs[calls[d].req].row>>
        /\ reqs[calls[d].req].resp = JsonOk
        /\ reqs[calls[e].req].resp = JsonOk

====
